---- MODULE Spec2Model ----
(***************************************************************************)
(* Model of the Mean Arterial Pressure service (src/main.py).              *)
(*                                                                         *)
(* A request carries two form-encoded text fields.  The MAPFormInput       *)
(* schema parses each field to an integer and checks it against its        *)
(* inclusive bounds; calculate_map then evaluates (SBP + 2*DBP) / 3 in     *)
(* binary floating point and rounds the quotient to one decimal place.     *)
(*                                                                         *)
(* Binary floats are modelled as fixed-point numbers with FracBits         *)
(* fractional bits: the integer v stands for the value v / 2^FracBits.     *)
(* Division and the decimal rounding are computed on that representation   *)
(* with round-to-nearest, ties-to-even, as the float arithmetic does.      *)
(***************************************************************************)
EXTENDS Integers, Sequences, FiniteSets

\* ---------------------------------------------------------------- bounds
\* How far outside the declared ranges the integer inputs are drawn.
Margin == 2
\* Number of request-handling workers that may run concurrently.
NumWorkers == 2
\* Fractional bits of the fixed-point stand-in for a binary float.
FracBits == 16

\* ------------------------------------------------------ program constants
systolic_ge == 50
systolic_le == 250
diastolic_ge == 30
diastolic_le == 150
\* ndigits of round(map_value, 1), as a power of ten
RoundScale == 10
\* the divisor of the formula
Divisor == 3

Workers == 1..NumWorkers

VARIABLES pc, form, data, map_value, outcome, responses

vars == <<pc, form, data, map_value, outcome, responses>>

\* ------------------------------------------------- form encoding (text)
Digits == <<"0", "1", "2", "3", "4", "5", "6", "7", "8", "9">>

DigitChar(d) == Digits[d + 1]

IsDigit(c) == \E d \in 0..9 : Digits[d + 1] = c

DigitVal(c) == CHOOSE d \in 0..9 : Digits[d + 1] = c

RECURSIVE FormatNat(_)
FormatNat(n) ==
    IF n < 10 THEN <<DigitChar(n)>>
    ELSE Append(FormatNat(n \div 10), DigitChar(n % 10))

\* the decimal text a client sends for the integer i
FormatInt(i) == IF i < 0 THEN <<"-">> \o FormatNat(-i) ELSE FormatNat(i)

\* a form field: absent from the body, or present with some text
Absent == [present |-> FALSE, text |-> <<>>]

Text(t) == [present |-> TRUE, text |-> t]

IntField(i) == Text(FormatInt(i))

RECURSIVE ParseNat(_)
ParseNat(t) ==
    IF Len(t) = 0 THEN 0
    ELSE 10 * ParseNat(SubSeq(t, 1, Len(t) - 1)) + DigitVal(t[Len(t)])

\* coercion of a text field to int: optional sign, then one or more digits
ParseInt(t) ==
    LET signed == Len(t) > 0 /\ t[1] \in {"-", "+"}
        body   == IF signed THEN SubSeq(t, 2, Len(t)) ELSE t
    IN  IF Len(body) = 0 \/ \E i \in 1..Len(body) : ~IsDigit(body[i])
        THEN [ok |-> FALSE, val |-> 0]
        ELSE [ok |-> TRUE,
              val |-> IF signed /\ t[1] = "-" THEN -ParseNat(body)
                      ELSE ParseNat(body)]

\* ------------------------------------------------------------ validation
Err(name, type) == [loc |-> name, type |-> type]

\* mutant: exclusive bounds (gt / lt in place of ge / le)
FieldErrorsExclusive(name, raw, ge, le) ==
    IF ~raw.present THEN {Err(name, "missing")}
    ELSE LET p == ParseInt(raw.text)
         IN  IF ~p.ok THEN {Err(name, "int_parsing")}
             ELSE IF p.val <= ge THEN {Err(name, "greater_than_equal")}
             ELSE IF p.val >= le THEN {Err(name, "less_than_equal")}
             ELSE {}

\* mutant: the bound metadata is dropped, only presence and type are checked
FieldErrorsNoRange(name, raw, ge, le) ==
    IF ~raw.present THEN {Err(name, "missing")}
    ELSE LET p == ParseInt(raw.text)
         IN  IF ~p.ok THEN {Err(name, "int_parsing")} ELSE {}

\* one int field declared with Field(ge=..., le=...)
FieldErrors(name, raw, ge, le) ==
    IF ~raw.present THEN {Err(name, "missing")}
    ELSE LET p == ParseInt(raw.text)
         IN  IF ~p.ok THEN {Err(name, "int_parsing")}
             ELSE IF p.val < ge THEN {Err(name, "greater_than_equal")}
             ELSE IF p.val > le THEN {Err(name, "less_than_equal")}
             ELSE {}

SystolicErrors(f) ==
    FieldErrors("systolic_bp", f.systolic_bp, systolic_ge, systolic_le)

DiastolicErrors(f) ==
    FieldErrors("diastolic_bp", f.diastolic_bp, diastolic_ge, diastolic_le)

\* mutant: validation stops at the first failing field
MAPFormInputErrorsFirstOnly(f) ==
    IF SystolicErrors(f) # {} THEN SystolicErrors(f) ELSE DiastolicErrors(f)

\* mutant: a cross-field rule, diastolic must be below systolic
MAPFormInputErrorsCrossField(f) ==
    LET e == SystolicErrors(f) \cup DiastolicErrors(f)
    IN  IF e = {} /\ ParseInt(f.diastolic_bp.text).val
                       >= ParseInt(f.systolic_bp.text).val
        THEN {Err("diastolic_bp", "less_than")}
        ELSE e

\* MAPFormInput: every field is validated, all errors are collected
MAPFormInputErrors(f) == SystolicErrors(f) \cup DiastolicErrors(f)

MAPFormInputData(f) ==
    [systolic_bp  |-> ParseInt(f.systolic_bp.text).val,
     diastolic_bp |-> ParseInt(f.diastolic_bp.text).val]

\* ------------------------------------------------------- float arithmetic
RECURSIVE Pow2(_)
Pow2(n) == IF n = 0 THEN 1 ELSE 2 * Pow2(n - 1)

Scale == Pow2(FracBits)

\* floor of a / b for b > 0, any sign of a
FloorDiv(a, b) == a \div b

\* the integer nearest to a / b (b > 0), ties to the even integer
NearestEven(a, b) ==
    LET fl == FloorDiv(a, b)
        r  == a - fl * b
    IN  IF 2 * r < b THEN fl
        ELSE IF 2 * r > b THEN fl + 1
        ELSE IF fl % 2 = 0 THEN fl ELSE fl + 1

\* the float nearest to the rational a / b
FloatDiv(a, b) == NearestEven(a * Scale, b)

\* mutant: the weights of the two pressures are swapped
MapFormulaSwapped(s, d) == FloatDiv(2 * s + d, Divisor)

\* (data.systolic_bp + 2 * data.diastolic_bp) / 3
MapFormula(s, d) == FloatDiv(s + 2 * d, Divisor)

\* the number of tenths round(x, 1) selects: nearest to the exact binary
\* value of x, ties to even
RoundTenths(x) == NearestEven(RoundScale * x, Scale)

\* mutant: the rounding step is skipped
Round1Skip(x) == x

\* round(x, 1): the float nearest to the selected one-decimal value
Round1(x) == FloatDiv(RoundTenths(x), RoundScale)

\* -------------------------------------------------------------- requests
NoData == [kind |-> "None"]

NoOutcome == [kind |-> "None"]

NoForm == [systolic_bp |-> Absent, diastolic_bp |-> Absent]

ExtraInts == {-5, 0, 999}

SystolicInts == ((systolic_ge - Margin)..(systolic_le + Margin)) \cup ExtraInts

DiastolicInts ==
    ((diastolic_ge - Margin)..(diastolic_le + Margin)) \cup ExtraInts

\* texts that are not the canonical decimal form of an integer
OtherTexts == {Text(<<"a", "b", "c">>), Text(<<"1", "2", "a">>), Text(<<"-">>),
               Text(<<"+", "8", "0">>), Text(<<"0", "8", "0">>)}

SystolicFields ==
    {IntField(i) : i \in SystolicInts} \cup OtherTexts \cup {Absent}

DiastolicFields ==
    {IntField(i) : i \in DiastolicInts} \cup OtherTexts \cup {Absent}

Forms == [systolic_bp : SystolicFields, diastolic_bp : DiastolicFields]

Form(sf, df) == [systolic_bp |-> sf, diastolic_bp |-> df]

\* the submissions of the concurrent specification
ConcForms == {Form(IntField(120), IntField(80)),
              Form(IntField(50), IntField(30)),
              Form(IntField(49), IntField(80)),
              Form(IntField(120), Text(<<"a", "b", "c">>))}

\* a request arrives at worker w
Receive(w) ==
    /\ pc[w] = "idle"
    /\ \E f \in ConcForms : form' = [form EXCEPT ![w] = f]
    /\ pc' = [pc EXCEPT ![w] = "validate"]
    /\ UNCHANGED <<data, map_value, outcome, responses>>

\* data: Annotated[MAPFormInput, Form()] -- the body is validated before the
\* handler body runs; a failure becomes the response
Validate(w) ==
    /\ pc[w] = "validate"
    /\ LET errs == MAPFormInputErrors(form[w])
       IN  IF errs = {}
           THEN /\ data' = [data EXCEPT ![w] = MAPFormInputData(form[w])]
                /\ pc' = [pc EXCEPT ![w] = "formula"]
                /\ UNCHANGED outcome
           ELSE /\ outcome' = [outcome EXCEPT ![w] =
                                 [kind |-> "ValidationError", errors |-> errs]]
                /\ pc' = [pc EXCEPT ![w] = "respond"]
                /\ UNCHANGED data
    /\ UNCHANGED <<form, map_value, responses>>

\* mutant: the reading is kept in one module-level variable shared by all
\* workers, so the formula may see another request's reading
FormulaShared(w) ==
    /\ pc[w] = "formula"
    /\ \E u \in Workers :
         /\ data[u] # NoData
         /\ map_value' = [map_value EXCEPT ![w] =
              <<MapFormula(data[u].systolic_bp, data[u].diastolic_bp)>>]
    /\ pc' = [pc EXCEPT ![w] = "round"]
    /\ UNCHANGED <<form, data, outcome, responses>>

\* map_value = (data.systolic_bp + 2 * data.diastolic_bp) / 3
Formula(w) ==
    /\ pc[w] = "formula"
    /\ map_value' = [map_value EXCEPT ![w] =
         <<MapFormula(data[w].systolic_bp, data[w].diastolic_bp)>>]
    /\ pc' = [pc EXCEPT ![w] = "round"]
    /\ UNCHANGED <<form, data, outcome, responses>>

\* map_value = round(map_value, 1)
Round(w) ==
    /\ pc[w] = "round"
    /\ map_value' = [map_value EXCEPT ![w] = <<Round1(map_value[w][1])>>]
    /\ pc' = [pc EXCEPT ![w] = "return"]
    /\ UNCHANGED <<form, data, outcome, responses>>

\* return MAPFormOutput(map=map_value)
Return(w) ==
    /\ pc[w] = "return"
    /\ outcome' = [outcome EXCEPT ![w] =
                     [kind |-> "Result", map |-> map_value[w][1]]]
    /\ pc' = [pc EXCEPT ![w] = "respond"]
    /\ UNCHANGED <<form, data, map_value, responses>>

\* the outcome is delivered to the caller; the request's locals are dropped
Respond(w) ==
    /\ pc[w] = "respond"
    /\ responses' = responses \cup {[form |-> form[w], outcome |-> outcome[w]]}
    /\ pc' = [pc EXCEPT ![w] = "idle"]
    /\ form' = [form EXCEPT ![w] = NoForm]
    /\ data' = [data EXCEPT ![w] = NoData]
    /\ map_value' = [map_value EXCEPT ![w] = <<>>]
    /\ outcome' = [outcome EXCEPT ![w] = NoOutcome]

Handle(w) ==
    \/ Validate(w)
    \/ Formula(w)
    \/ Round(w)
    \/ Return(w)
    \/ Respond(w)

\* --- one request, any submission of Forms, handled by worker 1
Init ==
    /\ \E f \in Forms : form = [w \in Workers |-> IF w = 1 THEN f ELSE NoForm]
    /\ pc = [w \in Workers |-> IF w = 1 THEN "validate" ELSE "idle"]
    /\ data = [w \in Workers |-> NoData]
    /\ map_value = [w \in Workers |-> <<>>]
    /\ outcome = [w \in Workers |-> NoOutcome]
    /\ responses = {}

Next == Handle(1)

Spec == Init /\ [][Next]_vars

\* --- any number of requests, served by all workers in any interleaving
InitConc ==
    /\ form = [w \in Workers |-> NoForm]
    /\ pc = [w \in Workers |-> "idle"]
    /\ data = [w \in Workers |-> NoData]
    /\ map_value = [w \in Workers |-> <<>>]
    /\ outcome = [w \in Workers |-> NoOutcome]
    /\ responses = {}

NextConc == \E w \in Workers : Receive(w) \/ Handle(w)

SpecConc == InitConc /\ [][NextConc]_vars

\* ------------------------------------------------------------ properties
\* the float a decimal literal with t tenths denotes, e.g. Lit(933) is 93.3
Lit(t) == FloatDiv(t, RoundScale)

IsResult(r) == r.outcome.kind = "Result"

IsFailure(r) == r.outcome.kind = "ValidationError"

\* the errors a failure reports on one field
ErrorsOn(r, name) == {e \in r.outcome.errors : e.loc = name}

\* the field holds text that is an integer within [ge, le]
FieldOK(raw, ge, le) ==
    /\ raw.present
    /\ ParseInt(raw.text).ok
    /\ ParseInt(raw.text).val >= ge
    /\ ParseInt(raw.text).val <= le

FormOK(f) ==
    /\ FieldOK(f.systolic_bp, systolic_ge, systolic_le)
    /\ FieldOK(f.diastolic_bp, diastolic_ge, diastolic_le)

\* the exact rounding of the rational RoundScale * n / Divisor to an integer
ExactTenths(n) == NearestEven(RoundScale * n, Divisor)

\* C1: for all integers s in [50,250] and d in [30,150] the response is a
\* Result whose map is (s + 2*d)/3 rounded to one decimal place: map is the
\* float of t/10 for the integer t that is the rounding of 10*(s + 2*d)/3,
\* and whenever the quotient is not itself a one-decimal value the returned
\* map differs from the unrounded quotient.
C1_MapIsRoundedFormula ==
    \A r \in responses :
      \A s \in systolic_ge..systolic_le :
        r.form.systolic_bp = IntField(s) =>
          \A d \in diastolic_ge..diastolic_le :
            r.form.diastolic_bp = IntField(d) =>
              /\ IsResult(r)
              /\ r.outcome.map = Lit(ExactTenths(s + 2 * d))
              /\ (s + 2 * d) % Divisor # 0 =>
                   r.outcome.map # FloatDiv(s + 2 * d, Divisor)

C1_Witness ==
    \E r \in responses :
      /\ r.form = Form(IntField(121), IntField(80))
      /\ IsResult(r)
      /\ r.outcome.map = Lit(937)

\* C2: every integer systolic_bp below 50 or above 250, with any
\* diastolic_bp field whatever, gives a validation failure that reports a
\* range violation on systolic_bp (the minimum one below, the maximum one
\* above) and no Result; 50 and 250 themselves raise no error on systolic_bp.
C2_SystolicRange ==
    \A r \in responses :
      \A s \in SystolicInts :
        r.form.systolic_bp = IntField(s) =>
          /\ s < systolic_ge =>
               /\ IsFailure(r)
               /\ ErrorsOn(r, "systolic_bp")
                    = {Err("systolic_bp", "greater_than_equal")}
          /\ s > systolic_le =>
               /\ IsFailure(r)
               /\ ErrorsOn(r, "systolic_bp")
                    = {Err("systolic_bp", "less_than_equal")}
          /\ s \in {systolic_ge, systolic_le} =>
               /\ IsFailure(r) => ErrorsOn(r, "systolic_bp") = {}
               /\ FieldOK(r.form.diastolic_bp, diastolic_ge, diastolic_le)
                    => IsResult(r)

C2_Witness ==
    /\ \E r \in responses :
         /\ r.form = Form(IntField(49), IntField(80))
         /\ r.outcome = [kind |-> "ValidationError",
                         errors |-> {Err("systolic_bp", "greater_than_equal")}]

\* C3: every integer diastolic_bp below 30 or above 150, with any
\* systolic_bp field whatever, gives a validation failure that reports a
\* range violation on diastolic_bp and no Result; 30 and 150 themselves
\* raise no error on diastolic_bp.
C3_DiastolicRange ==
    \A r \in responses :
      \A d \in DiastolicInts :
        r.form.diastolic_bp = IntField(d) =>
          /\ d < diastolic_ge =>
               /\ IsFailure(r)
               /\ ErrorsOn(r, "diastolic_bp")
                    = {Err("diastolic_bp", "greater_than_equal")}
          /\ d > diastolic_le =>
               /\ IsFailure(r)
               /\ ErrorsOn(r, "diastolic_bp")
                    = {Err("diastolic_bp", "less_than_equal")}
          /\ d \in {diastolic_ge, diastolic_le} =>
               /\ IsFailure(r) => ErrorsOn(r, "diastolic_bp") = {}
               /\ FieldOK(r.form.systolic_bp, systolic_ge, systolic_le)
                    => IsResult(r)

C3_Witness ==
    /\ \E r \in responses :
         /\ r.form = Form(IntField(120), IntField(29))
         /\ r.outcome = [kind |-> "ValidationError",
                         errors |-> {Err("diastolic_bp", "greater_than_equal")}]

\* C4 as stated: compute(250, 150) returns a Result with map = 216.7.
C4_UpperBoundaryIs216_7 ==
    \A r \in responses :
      r.form = Form(IntField(systolic_le), IntField(diastolic_le)) =>
        IsResult(r) /\ r.outcome.map = Lit(2167)

\* C4 amended: compute(250, 150) returns a Result with map = 183.3, the
\* rounding of (250 + 2*150)/3 = 183.33...
C4_UpperBoundaryIs183_3 ==
    \A r \in responses :
      r.form = Form(IntField(systolic_le), IntField(diastolic_le)) =>
        IsResult(r) /\ r.outcome.map = Lit(1833)

C4_Witness ==
    \E r \in responses :
      /\ r.form = Form(IntField(250), IntField(150))
      /\ IsResult(r)

\* C5: compute(50, 30) returns a Result with map = 36.7 and compute(120, 80)
\* returns a Result with map = 93.3.
C5_LowerBoundaryAndExample ==
    \A r \in responses :
      /\ r.form = Form(IntField(systolic_ge), IntField(diastolic_ge)) =>
           IsResult(r) /\ r.outcome.map = Lit(367)
      /\ r.form = Form(IntField(120), IntField(80)) =>
           IsResult(r) /\ r.outcome.map = Lit(933)

C5_Witness ==
    \E r \in responses :
      /\ r.form \in {Form(IntField(50), IntField(30)),
                     Form(IntField(120), IntField(80))}
      /\ IsResult(r)

\* C6: the formula step is reached, and a map value exists, only for a
\* request whose Reading satisfies 50 <= systolic_bp <= 250 and
\* 30 <= diastolic_bp <= 150; a request whose validation failed (range, type
\* or missing field) never has a Reading or a map value, partial or final,
\* and its response is never a Result.
C6_FormulaOnlyOnValidReading ==
    /\ \A w \in Workers :
         /\ (pc[w] \in {"formula", "round", "return"} \/ map_value[w] # <<>>) =>
              /\ data[w] # NoData
              /\ data[w].systolic_bp \in systolic_ge..systolic_le
              /\ data[w].diastolic_bp \in diastolic_ge..diastolic_le
              /\ FormOK(form[w])
         /\ (pc[w] # "idle" /\ ~FormOK(form[w])) =>
              /\ data[w] = NoData
              /\ map_value[w] = <<>>
              /\ outcome[w].kind # "Result"
    /\ \A r \in responses : ~FormOK(r.form) => IsFailure(r)

C6_Witness ==
    /\ pc[1] = "respond"
    /\ form[1] = Form(IntField(251), Text(<<"a", "b", "c">>))
    /\ outcome[1].kind = "ValidationError"
    /\ map_value[1] = <<>>

\* the reason a field fails, "none" when it does not
Reason(raw, ge, le) ==
    IF ~raw.present THEN "missing"
    ELSE IF ~ParseInt(raw.text).ok THEN "int_parsing"
    ELSE IF ParseInt(raw.text).val < ge THEN "greater_than_equal"
    ELSE IF ParseInt(raw.text).val > le THEN "less_than_equal"
    ELSE "none"

ExpectedErrors(f) ==
    {e \in {Err("systolic_bp",
                Reason(f.systolic_bp, systolic_ge, systolic_le)),
            Err("diastolic_bp",
                Reason(f.diastolic_bp, diastolic_ge, diastolic_le))} :
       e.type # "none"}

\* C7: a validation failure reports exactly the fields that failed, each
\* with its own reason (below minimum, above maximum, wrong type, absent):
\* "abc" as diastolic_bp with a valid systolic_bp reports a type violation on
\* diastolic_bp only, an absent field reports a missing-field error on that
\* field, and when both fields fail both are reported.
C7_ErrorsNameExactlyFailedFields ==
    \A r \in responses :
      /\ IsFailure(r) => r.outcome.errors = ExpectedErrors(r.form)
      /\ ExpectedErrors(r.form) # {} => IsFailure(r)
      /\ r.form = Form(IntField(120), Text(<<"a", "b", "c">>)) =>
           /\ IsFailure(r)
           /\ r.outcome.errors = {Err("diastolic_bp", "int_parsing")}
      /\ ~r.form.systolic_bp.present =>
           IsFailure(r) /\ Err("systolic_bp", "missing") \in r.outcome.errors
      /\ ~r.form.diastolic_bp.present =>
           IsFailure(r) /\ Err("diastolic_bp", "missing") \in r.outcome.errors
      /\ (/\ ~FieldOK(r.form.systolic_bp, systolic_ge, systolic_le)
          /\ ~FieldOK(r.form.diastolic_bp, diastolic_ge, diastolic_le)) =>
           /\ IsFailure(r)
           /\ {e.loc : e \in r.outcome.errors} = {"systolic_bp", "diastolic_bp"}

C7_Witness ==
    \E r \in responses :
      /\ r.form = Form(Absent, IntField(151))
      /\ r.outcome.kind = "ValidationError"
      /\ r.outcome.errors = {Err("systolic_bp", "missing"),
                             Err("diastolic_bp", "less_than_equal")}

\* C8: in any interleaving of requests the outcome of a request depends on
\* its own submission only: two responses to identical submissions are
\* identical, whatever ran before or runs concurrently, and an outcome about
\* to be delivered agrees with every earlier response to the same submission
\* and with every other worker's outcome for the same submission.
C8_OutcomeDependsOnOwnInputOnly ==
    /\ \A r1, r2 \in responses : r1.form = r2.form => r1.outcome = r2.outcome
    /\ \A w \in Workers :
         pc[w] = "respond" =>
           /\ \A r \in responses : r.form = form[w] => r.outcome = outcome[w]
           /\ \A u \in Workers :
                (pc[u] = "respond" /\ form[u] = form[w]) =>
                  outcome[u] = outcome[w]

C8_Witness ==
    \E w, u \in Workers :
      /\ w # u
      /\ pc[w] = "respond"
      /\ form[w] = Form(IntField(50), IntField(30))
      /\ outcome[w].kind = "Result"
      /\ \E r \in responses : r.form = form[w]
      /\ pc[u] \in {"formula", "round", "return"}
      /\ form[u] = Form(IntField(120), IntField(80))

\* round(x, 1) with ties away from zero instead of ties to even
RoundTenthsHalfAway(x) ==
    LET fl == FloorDiv(RoundScale * x, Scale)
        r  == RoundScale * x - fl * Scale
    IN  IF x >= 0
        THEN (IF 2 * r >= Scale THEN fl + 1 ELSE fl)
        ELSE (IF 2 * r > Scale THEN fl + 1 ELSE fl)

TenthsDigit(n) ==
    CASE n % Divisor = 0 -> 0
      [] n % Divisor = 1 -> 3
      [] n % Divisor = 2 -> 7

\* C9: for every valid Reading the unrounded quotient (s + 2*d)/3 is never
\* exactly halfway between two one-decimal values, so rounding ties to even
\* and rounding ties away from zero select the same map; the tenths digit of
\* the map is 0, 3 or 7 as (s + 2*d) mod 3 is 0, 1 or 2.
C9_NoHalfwayCase ==
    \A w \in Workers :
      LET n == data[w].systolic_bp + 2 * data[w].diastolic_bp
      IN  /\ pc[w] = "round" =>
               /\ (RoundScale * map_value[w][1]) % Scale # Scale \div 2
               /\ (2 * RoundScale * n) % (2 * Divisor) # Divisor
               /\ RoundTenthsHalfAway(map_value[w][1])
                    = RoundTenths(map_value[w][1])
               /\ RoundTenths(map_value[w][1]) % 10 = TenthsDigit(n)
          /\ pc[w] = "return" =>
               map_value[w][1] = Lit(10 * (n \div Divisor) + TenthsDigit(n))

C9_Witness ==
    /\ pc[1] = "return"
    /\ data[1] = [systolic_bp |-> 121, diastolic_bp |-> 80]
    /\ map_value[1] = <<Lit(937)>>

\* C10: a submission is accepted exactly when each field separately lies in
\* its own range; every in-bounds Reading with diastolic_bp >= systolic_bp
\* is accepted and yields a Result whose map is not below systolic_bp
\* (116.7 for systolic_bp = 50, diastolic_bp = 150).
C10_NoCrossFieldRule ==
    \A r \in responses :
      /\ IsResult(r) <=> FormOK(r.form)
      /\ r.form = Form(IntField(50), IntField(150)) =>
           IsResult(r) /\ r.outcome.map = Lit(1167)
      /\ \A s \in systolic_ge..systolic_le :
           r.form.systolic_bp = IntField(s) =>
             \A d \in diastolic_ge..diastolic_le :
               (d >= s /\ r.form.diastolic_bp = IntField(d)) =>
                 IsResult(r) /\ r.outcome.map >= s * Scale

C10_Witness ==
    \E r \in responses :
      /\ r.form = Form(IntField(50), IntField(150))
      /\ IsResult(r)
      /\ r.outcome.map = Lit(1167)

====
